---- MODULE Spec2Model ----
(***************************************************************************)
(* A model of src/name.py: the Name value object and its comparisons, the  *)
(* NeedFactory registry, stat generation with its compression gate, the    *)
(* alignment classifier and the sort-order construction of the module-level *)
(* person assembly loop.                                                    *)
(*                                                                          *)
(* Python strings are modelled as sequences of one-character strings, so   *)
(* that upper(), lower(), str(), int() and string comparison do real work. *)
(***************************************************************************)
EXTENDS Integers, Sequences, FiniteSets, TLC

VARIABLES
    pc,               \* "idle", or "gen" while Person.__gen_stat_dict runs
    ret,              \* the dict __gen_stat_dict is filling (stat -> int)
    raw,              \* the value random.choices returned in the last iteration
    roll,             \* the values random.randint returned in the last iteration
    compressed,       \* whether line 200 ran in the last iteration
    outliers,         \* how many atypical raw samples this generation has drawn
    alignment_arg,    \* the alignment argument of the Person being constructed
    person,           \* <<>> or <<the Person last constructed>>
    registered_needs, \* NeedFactory.registered_needs (class attribute, shared)
    last_registered,  \* per category, the subtypes of its latest register_need
    need_result,      \* <<>> or <<the outcome of the last create_need>>
    case_sensitive,   \* Name.case_sensitive (class attribute)
    cmp,              \* <<>> or <<the operands and outcomes of a comparison>>
    gen_out,          \* <<>> or <<what generate() returned>>
    built             \* <<>> or <<the outcome of building the Name from gen_out>>

vars == <<pc, ret, raw, roll, compressed, outliers, alignment_arg, person,
          registered_needs, last_registered, need_result, case_sensitive, cmp,
          gen_out, built>>

statVars == <<pc, ret, raw, roll, compressed, outliers, alignment_arg, person>>
needVars == <<registered_needs, last_registered, need_result>>
nameVars == <<case_sensitive, cmp>>
asmVars == <<gen_out, built>>

(***************************************************************************)
(* Bounds of the model.                                                    *)
(***************************************************************************)
\* atypical raw samples (not a mode of the weights) allowed in one generation
MaxOutliers == 1

\* subtypes in one register_need call
MaxSubtypes == 2

\* parts in one Name
MaxParts == 2

\* name parts generate() returns
MaxNameParts == 11

\* how far the number of labels may be from the number of name parts
MaxMismatch == 1

(***************************************************************************)
(* Strings.                                                                *)
(***************************************************************************)
\* the characters the model's strings use, in code-point order
CodePoints ==
    <<"0", "1", "2", "3", "4", "5", "6", "7", "8", "9",
      "A", "B", "C", "D", "E", "F", "G", "H", "I", "J", "K", "L", "M",
      "N", "O", "P", "Q", "R", "S", "T", "U", "V", "W", "X", "Y", "Z",
      "a", "b", "c", "d", "e", "f", "g", "h", "i", "j", "k", "l", "m",
      "n", "o", "p", "q", "r", "s", "t", "u", "v", "w", "x", "y", "z">>

Chars == {CodePoints[i] : i \in 1..Len(CodePoints)}

Ord == [c \in Chars |-> CHOOSE i \in 1..Len(CodePoints) : CodePoints[i] = c]

IsUpperChar(c) == Ord[c] >= Ord["A"] /\ Ord[c] <= Ord["Z"]
IsLowerChar(c) == Ord[c] >= Ord["a"] /\ Ord[c] <= Ord["z"]

UpperChar == [c \in Chars |->
                IF IsLowerChar(c) THEN CodePoints[Ord[c] - Ord["a"] + Ord["A"]] ELSE c]

LowerChar == [c \in Chars |->
                IF IsUpperChar(c) THEN CodePoints[Ord[c] - Ord["A"] + Ord["a"]] ELSE c]

\* str.upper() and str.lower()
upper(s) == [i \in 1..Len(s) |-> UpperChar[s[i]]]
lower(s) == [i \in 1..Len(s) |-> LowerChar[s[i]]]

Min(a, b) == IF a <= b THEN a ELSE b

\* tuples of at most n elements of S
TuplesUpTo(S, n) == UNION {[1..k -> S] : k \in 0..n}

\* Python's str < str: by code point at the first difference, a proper prefix first
StrLt(a, b) ==
    \E k \in 1..(Min(Len(a), Len(b)) + 1) :
        /\ \A j \in 1..(k - 1) : a[j] = b[j]
        /\ \/ k > Len(a) /\ k <= Len(b)
           \/ k <= Len(a) /\ k <= Len(b) /\ Ord[a[k]] < Ord[b[k]]

(***************************************************************************)
(* Stat generation and alignment (class Person).                           *)
(***************************************************************************)
STAT_TYPES ==
    <<"STRENGTH", "DEXTERITY", "CONSTITUTION", "INTELLIGENCE", "WISDOM",
      "CHARISMA", "PREDICTABILITY", "LAWFULLNESS">>

StatSet == {STAT_TYPES[i] : i \in 1..Len(STAT_TYPES)}

\* WEIGHTS.NORMAL_3_18, the weights in hundredths
NORMAL_3_18 ==
    [range |-> <<3, 18>>,
     weights |-> <<46, 139, 278, 463, 694, 972, 1157, 1250,
                   1250, 1157, 972, 694, 463, 278, 139, 46>>]

\* range(lo, hi + 1) as a sequence
PyRange(lo, hi) == [i \in 1..(hi - lo + 1) |-> lo + i - 1]

\* the values random.choices(population, weights, k=1)[0] can return
choices(population, weights) ==
    {population[i] : i \in {j \in 1..Len(population) : weights[j] > 0}}

\* random.randrange(a, b): the upper end left out
randint_exclusive(a, b) == a..(b - 1)

\* the values random.randint(a, b) can return: both ends included
randint(a, b) == a..b

\* int(math.sqrt(x)) for a non-negative integer x
IntSqrt(x) == CHOOSE r \in 0..x : r * r <= x /\ (r + 1) * (r + 1) > x

\* math.ceil in place of int
compress_range_ceil(num) ==
    IF IntSqrt(num * 15) * IntSqrt(num * 15) = num * 15
    THEN IntSqrt(num * 15) ELSE IntSqrt(num * 15) + 1

compress_range(num) == IntSqrt(num * 15)

\* a raw sample is typical when no other value has a larger weight
IsTypical(v) ==
    LET w == NORMAL_3_18.weights
        lo == NORMAL_3_18.range[1]
    IN  \A j \in 1..Len(w) : w[j] <= w[v - lo + 1]

\* an enum member is truthy
Truthy(member) == member \in StatSet

\* the upper end of the compression roll
RollHi == 4 * Len(STAT_TYPES) - 2

\* The condition of lines 192-199 for `stat`, as Python parses it:
\*   stat != PREDICTABILITY or (LAWFULLNESS and (randint(...) == 0))
\* `rolls` is the set of values randint returned: empty when the left operand
\* of `or` was true and the right operand was never evaluated.
GateRolls(stat) ==
    IF stat # "PREDICTABILITY" THEN {{}}
    ELSE IF ~Truthy("LAWFULLNESS") THEN {{}}
    ELSE {{r} : r \in randint(0, RollHi)}

Gate(stat, rolls) ==
    \/ stat # "PREDICTABILITY"
    \/ Truthy("LAWFULLNESS") /\ rolls = {0}

Put(d, k, v) == [x \in DOMAIN d \cup {k} |-> IF x = k THEN v ELSE d[x]]

EmptyDict == [x \in {} |-> 0]

\* > 13 in place of >= 13
get_alignment_strict(stats) ==
    LET pred_stat == stats["PREDICTABILITY"]
        law_stat == stats["LAWFULLNESS"]
        pred == IF pred_stat > 13 THEN "NEUTRAL"
                ELSE IF pred_stat >= 8 THEN "LAWFUL"
                ELSE "CHAOTIC"
        law == IF law_stat > 13 THEN "GOOD"
               ELSE IF law_stat >= 8 THEN "NEUTRAL"
               ELSE "EVIL"
    IN  <<pred, law>>

get_alignment(stats) ==
    LET pred_stat == stats["PREDICTABILITY"]
        law_stat == stats["LAWFULLNESS"]
        pred == IF pred_stat >= 13 THEN "NEUTRAL"
                ELSE IF pred_stat >= 8 THEN "LAWFUL"
                ELSE "CHAOTIC"
        law == IF law_stat >= 13 THEN "GOOD"
               ELSE IF law_stat >= 8 THEN "NEUTRAL"
               ELSE "EVIL"
    IN  <<pred, law>>

\* the dataclass __init__ stores its arguments, then calls __post_init__
post_init(p) == [p EXCEPT !.alignment = get_alignment(p.stats)]

NewPerson(stats, alignment) ==
    post_init([stats |-> stats, alignment |-> alignment])

\* alignment arguments a caller may pass; <<"", "">> is the default
AlignmentArgs == {<<"", "">>, <<"CHAOTIC", "EVIL">>}

\* stats arguments a caller may pass: the two alignment stats over the whole
\* range, the other stats at a typical value
StatsArgs ==
    LET lo == NORMAL_3_18.range[1]
        hi == NORMAL_3_18.range[2]
        typ == CHOOSE v \in lo..hi : IsTypical(v)
    IN  {[s \in StatSet |-> IF s = "PREDICTABILITY" THEN a
                           ELSE IF s = "LAWFULLNESS" THEN b
                           ELSE typ] : a \in lo..hi, b \in lo..hi}

\* Person(name): __init__ finds no stats argument and calls the default_factory
PersonBegin ==
    /\ pc = "idle"
    /\ pc' = "gen"
    /\ ret' = EmptyDict
    /\ raw' = {}
    /\ roll' = {}
    /\ compressed' = FALSE
    /\ outliers' = 0
    /\ alignment_arg' = <<"", "">>
    /\ person' = <<>>
    /\ UNCHANGED <<needVars, nameVars, asmVars>>

\* lines 184-190: the next stat of the loop of __gen_stat_dict gets its raw sample
GenSample ==
    /\ pc = "gen"
    /\ Cardinality(DOMAIN ret) < Len(STAT_TYPES)
    /\ LET stat == STAT_TYPES[Cardinality(DOMAIN ret) + 1]
           lo == NORMAL_3_18.range[1]
           hi == NORMAL_3_18.range[2]
       IN  \E v \in choices(PyRange(lo, hi), NORMAL_3_18.weights) :
               /\ IsTypical(v) \/ outliers < MaxOutliers
               /\ outliers' = IF IsTypical(v) THEN outliers ELSE outliers + 1
               /\ raw' = {v}
               /\ ret' = Put(ret, stat, v)
    /\ roll' = {}
    /\ compressed' = FALSE
    /\ pc' = "gate"
    /\ UNCHANGED <<alignment_arg, person>>
    /\ UNCHANGED <<needVars, nameVars, asmVars>>

\* lines 192-200: the condition is evaluated and the sample compressed if it holds
GenGate ==
    /\ pc = "gate"
    /\ LET stat == STAT_TYPES[Cardinality(DOMAIN ret)]
       IN  \E rolls \in GateRolls(stat) :
               /\ roll' = rolls
               /\ compressed' = Gate(stat, rolls)
               /\ ret' = IF Gate(stat, rolls)
                         THEN Put(ret, stat, compress_range(ret[stat]))
                         ELSE ret
    /\ pc' = "gen"
    /\ UNCHANGED <<raw, outliers, alignment_arg, person>>
    /\ UNCHANGED <<needVars, nameVars, asmVars>>

\* __gen_stat_dict returns; __init__ stores the fields, the alignment argument
\* among them, and runs __post_init__
PersonFinish ==
    /\ pc = "gen"
    /\ Cardinality(DOMAIN ret) = Len(STAT_TYPES)
    /\ \E a \in AlignmentArgs :
           /\ alignment_arg' = a
           /\ person' = <<NewPerson(ret, a)>>
    /\ pc' = "idle"
    /\ ret' = EmptyDict
    /\ raw' = {}
    /\ roll' = {}
    /\ compressed' = FALSE
    /\ outliers' = 0
    /\ UNCHANGED <<needVars, nameVars, asmVars>>

\* Person(name, stats=s, alignment=a): no stat generation
PersonWithStats ==
    /\ pc = "idle"
    /\ \E s \in StatsArgs, a \in AlignmentArgs :
           /\ alignment_arg' = a
           /\ person' = <<NewPerson(s, a)>>
    /\ ret' = EmptyDict
    /\ raw' = {}
    /\ roll' = {}
    /\ compressed' = FALSE
    /\ outliers' = 0
    /\ UNCHANGED pc
    /\ UNCHANGED <<needVars, nameVars, asmVars>>

(***************************************************************************)
(* The need taxonomy (classes Maslow_Need, Need, NeedFactory).             *)
(***************************************************************************)
TYPES ==
    <<"PHYSIOLOGICAL", "SAFETY", "BELONGING", "ESTEEM", "COGNITIVE",
      "AESTHETIC", "SELFACTUALIZATION", "TRANSCENDENCE">>

TypeSet == {TYPES[i] : i \in 1..Len(TYPES)}

\* the categories the modelled calls name
UsedTypes == {"PHYSIOLOGICAL", "SAFETY"}

\* the subtype strings the modelled calls pass
StrFood == <<"F", "o", "o", "d">>
StrFoodLower == <<"f", "o", "o", "d">>
StrDrink == <<"D", "r", "i", "n", "k">>
SubtypeStrings == {StrFood, StrFoodLower, StrDrink}

\* the weight arguments: <<>> when omitted, else <<the weight>> (floats by name)
WeightArgs == {<<>>, <<"0.5">>}

\* the NeedFactory instances; registered_needs is an attribute of the class, and
\* no instance ever gets one of its own
Factories == {"needFactory", "otherFactory"}

\* line 116 without the upper()
registered_tuple_as_given(subtypes) == subtypes

\* line 116: tuple([x.upper() for x in subtypes])
registered_tuple(subtypes) == [i \in 1..Len(subtypes) |-> upper(subtypes[i])]

\* x in t, for a tuple t
InTuple(x, t) == \E i \in 1..Len(t) : t[i] = x

\* Need(need_type, subtype, weight)
Need(need_type, subtype, weight) ==
    [type |-> need_type, subtype |-> subtype, weight |-> weight]

\* the outcome of create_need(type, subtype[, weight]) with the registry `reg`
create_need_outcome(reg, type, subtype, weight_arg) ==
    LET weight == IF weight_arg = <<>> THEN "DEFAULT" ELSE weight_arg[1]
        up == upper(subtype)
    IN  IF type \notin DOMAIN reg
        THEN [outcome |-> "KeyError", need |-> <<>>]
        ELSE IF ~InTuple(up, reg[type])
        THEN [outcome |-> "ValueError", need |-> <<>>]
        ELSE [outcome |-> "Need", need |-> <<Need(type, up, weight)>>]

register_need ==
    \E self \in Factories, name \in UsedTypes,
       subtypes \in TuplesUpTo(SubtypeStrings, MaxSubtypes) :
        /\ registered_needs' = Put(registered_needs, name, registered_tuple(subtypes))
        /\ last_registered' = Put(last_registered, name, subtypes)
        /\ need_result' = <<>>
        /\ UNCHANGED <<statVars, nameVars, asmVars>>

create_need ==
    \E self \in Factories, type \in UsedTypes, subtype \in SubtypeStrings,
       weight_arg \in WeightArgs :
        /\ need_result' =
               <<[factory |-> self, type |-> type, subtype |-> subtype,
                  weight_arg |-> weight_arg,
                  registry_before |-> registered_needs,
                  result |-> create_need_outcome(registered_needs, type,
                                                 subtype, weight_arg)]>>
        /\ UNCHANGED <<registered_needs, last_registered>>
        /\ UNCHANGED <<statVars, nameVars, asmVars>>

(***************************************************************************)
(* Names and their comparisons (class Name under functools.total_ordering). *)
(***************************************************************************)
\* the part strings the modelled Names are made of
StrAn == <<"A", "n">>
StrAnLower == <<"a", "n">>
StrA == <<"a">>
PartStrings == {StrAn, StrAnLower, StrA}

\* the tuples that list 0..n-1 in some order
IndexOrders(n) ==
    {t \in [1..n -> 0..(n - 1)] : \A i, j \in 1..n : t[i] = t[j] => i = j}

\* Name.__init__(parts, sort_order); sort_order_arg is <<>> for None, else <<the tuple>>
NameInit(parts, sort_order_arg) ==
    [kind |-> "Name",
     id |-> 1,
     parts |-> parts,
     sort_order |-> IF sort_order_arg = <<>>
                    THEN [i \in 1..Len(parts) |-> i - 1]
                    ELSE sort_order_arg[1]]

\* the Names a caller can construct from the part strings and index orders
Names ==
    {NameInit(parts, arg) :
        parts \in TuplesUpTo(PartStrings, MaxParts),
        arg \in {<<>>} \cup UNION {{<<t>> : t \in IndexOrders(k)} : k \in 0..MaxParts}}

\* those whose sort_order lists every index of parts once, as the Names the
\* program builds do
WellFormedNames == {n \in Names : Len(n.sort_order) = Len(n.parts)}

\* objects that are not Names: an int, a str and None; none of their comparison
\* methods knows what a Name is
NonNames ==
    {[kind |-> k, id |-> 1, parts |-> <<>>, sort_order |-> <<>>] :
        k \in {"int", "str", "NoneType"}}

\* the loop of _sort_str after the first k entries of sort_order; "".join of
\* the characters of a part is the part
RECURSIVE sort_str_loop(_, _)
sort_str_loop(n, k) ==
    IF k = 0 THEN <<>>
    ELSE sort_str_loop(n, k - 1) \o n.parts[n.sort_order[k] + 1]

\* _sort_str with the parts taken in display order
sort_str_display_order(n, cs) ==
    LET RECURSIVE join(_)
        join(k) == IF k = 0 THEN <<>> ELSE join(k - 1) \o n.parts[k]
    IN  IF cs THEN join(Len(n.parts)) ELSE lower(join(Len(n.parts)))

\* Name._sort_str, with Name.case_sensitive equal to cs
sort_str(n, cs) ==
    LET r == sort_str_loop(n, Len(n.sort_order))
    IN  IF cs THEN r ELSE lower(r)

PyBool(b) == IF b THEN "True" ELSE "False"

\* Name.__eq__
name_eq(self, other, cs) ==
    IF other.kind # "Name" THEN "NotImplemented"
    ELSE PyBool(sort_str(self, cs) = sort_str(other, cs))

\* Name.__lt__ answering False to an object that is not a Name
name_lt_false_for_others(self, other, cs) ==
    IF other.kind # "Name" THEN "False"
    ELSE PyBool(StrLt(sort_str(self, cs), sort_str(other, cs)))

\* Name.__lt__
name_lt(self, other, cs) ==
    IF other.kind # "Name" THEN "NotImplemented"
    ELSE PyBool(StrLt(sort_str(self, cs), sort_str(other, cs)))

\* object.__ne__, which Name inherits: the inverse of __eq__ unless NotImplemented
name_ne(self, other, cs) ==
    LET r == name_eq(self, other, cs)
    IN  IF r = "NotImplemented" THEN r ELSE PyBool(r = "False")

\* the methods total_ordering derives from __lt__
name_le(self, other, cs) ==
    LET r == name_lt(self, other, cs)
    IN  IF r = "NotImplemented" THEN r
        ELSE PyBool(r = "True" \/ name_eq(self, other, cs) = "True")

name_gt(self, other, cs) ==
    LET r == name_lt(self, other, cs)
    IN  IF r = "NotImplemented" THEN r
        ELSE PyBool(r = "False" /\ name_ne(self, other, cs) = "True")

name_ge(self, other, cs) ==
    LET r == name_lt(self, other, cs)
    IN  IF r = "NotImplemented" THEN r ELSE PyBool(r = "False")

Ops == {"==", "!=", "<", "<=", ">", ">="}

\* the operator Python tries on the right operand when the left one declines
Reflected(op) ==
    CASE op = "==" -> "=="
      [] op = "!=" -> "!="
      [] op = "<" -> ">"
      [] op = "<=" -> ">="
      [] op = ">" -> "<"
      [] op = ">=" -> "<="

\* type(self).__op__(self, other)
Method(op, self, other, cs) ==
    IF self.kind # "Name" THEN "NotImplemented"
    ELSE CASE op = "==" -> name_eq(self, other, cs)
           [] op = "!=" -> name_ne(self, other, cs)
           [] op = "<" -> name_lt(self, other, cs)
           [] op = "<=" -> name_le(self, other, cs)
           [] op = ">" -> name_gt(self, other, cs)
           [] op = ">=" -> name_ge(self, other, cs)

\* `a op b`: a's method, then b's reflected method, then identity for == and !=
\* and TypeError for the ordering operators
PyCompare(op, a, b, cs) ==
    LET first == Method(op, a, b, cs)
        second == Method(Reflected(op), b, a, cs)
    IN  IF first # "NotImplemented" THEN first
        ELSE IF second # "NotImplemented" THEN second
        ELSE IF op = "==" THEN PyBool(a.id = b.id)
        ELSE IF op = "!=" THEN PyBool(a.id # b.id)
        ELSE "TypeError"

\* a caller sets Name.case_sensitive
SetCaseSensitive ==
    /\ \E b \in BOOLEAN : b # case_sensitive /\ case_sensitive' = b
    /\ cmp' = <<>>
    /\ UNCHANGED <<statVars, needVars, asmVars>>

\* the outcomes of the last comparison go out of scope
Forget ==
    /\ cmp # <<>>
    /\ cmp' = <<>>
    /\ UNCHANGED case_sensitive
    /\ UNCHANGED <<statVars, needVars, asmVars>>

\* two distinct objects, one of them at least a Name, are compared with
\* every operator
Compare ==
    /\ cmp = <<>>
    /\ \E a \in WellFormedNames \cup NonNames,
          b \in WellFormedNames \cup NonNames :
           /\ a.kind = "Name" \/ b.kind = "Name"
           /\ LET right == [b EXCEPT !.id = 2]
              IN  cmp' = <<[left |-> a, right |-> right,
                            out |-> [op \in Ops |->
                                       PyCompare(op, a, right, case_sensitive)]]>>
    /\ UNCHANGED case_sensitive
    /\ UNCHANGED <<statVars, needVars, asmVars>>

(***************************************************************************)
(* The module-level person assembly loop: from generate() to the Name.     *)
(***************************************************************************)
\* the per-part labels generate() returns
StrGiven == <<"g", "i", "v", "e", "n">>
StrFamily == <<"f", "a", "m", "i", "l", "y">>
LabelStrings == {StrGiven, StrFamily}

\* str(i) for i >= 0
RECURSIVE py_str(_)
py_str(i) ==
    IF i < 10 THEN <<CodePoints[Ord["0"] + i]>>
    ELSE py_str(i \div 10) \o <<CodePoints[Ord["0"] + (i % 10)]>>

\* int(s) for a string of decimal digits
RECURSIVE py_int(_)
py_int(s) ==
    IF Len(s) = 0 THEN 0
    ELSE py_int(SubSeq(s, 1, Len(s) - 1)) * 10 + (Ord[s[Len(s)]] - Ord["0"])

\* the order sorted() would use without key=: the whole pair, label then str(i)
pair_lt_whole(x, y) ==
    \/ StrLt(x[1], y[1])
    \/ x[1] = y[1] /\ StrLt(x[2], y[2])

\* the order sorted(pair, key=operator.itemgetter(0)) uses: the label alone
pair_lt(x, y) == StrLt(x[1], y[1])

\* sorted() is stable: an element goes after those that are not greater
insert_sorted(done, x) ==
    LET k == Cardinality({i \in 1..Len(done) : ~pair_lt(x, done[i])})
    IN  SubSeq(done, 1, k) \o <<x>> \o SubSeq(done, k + 1, Len(done))

RECURSIVE sorted_prefix(_, _)
sorted_prefix(pair, k) ==
    IF k = 0 THEN <<>> ELSE insert_sorted(sorted_prefix(pair, k - 1), pair[k])

sorted(pair) == sorted_prefix(pair, Len(pair))

\* lines 276-279
choose_name_parts(name, romanised) == IF Len(romanised) > 0 THEN romanised ELSE name

\* lines 276-288 for one result of generate(): the Name, or the IndexError of
\* parts[i] when the labels run out
assemble(g) ==
    LET name_parts == choose_name_parts(g.name, g.romanised)
    IN  IF \E i \in 0..(Len(name_parts) - 1) : i >= Len(g.parts)
        THEN [outcome |-> "IndexError", name |-> <<>>]
        ELSE LET pair == [i \in 1..Len(name_parts) |-> <<g.parts[i], py_str(i - 1)>>]
                 done == sorted(pair)
                 pair_sort_order == [i \in 1..Len(done) |-> py_int(done[i][2])]
             IN  [outcome |-> "Name",
                  name |-> <<NameInit(name_parts, <<pair_sort_order>>)>>]

Abs(x) == IF x < 0 THEN -x ELSE x

\* line 273: generate() returns n native parts, no romanised parts or n of
\* them, and labels whose number is n or near it
Generate ==
    /\ gen_out = <<>>
    /\ built = <<>>
    /\ \E n \in 0..MaxNameParts :
       \E m \in {0, n}, k \in 0..(MaxNameParts + MaxMismatch) :
           /\ Abs(k - n) <= MaxMismatch
           /\ \E labels \in [1..k -> LabelStrings] :
                  gen_out' = <<[name |-> [i \in 1..n |-> StrAn],
                                romanised |-> [i \in 1..m |-> StrAnLower],
                                parts |-> labels]>>
    /\ UNCHANGED built
    /\ UNCHANGED <<statVars, needVars, nameVars>>

\* lines 276-288: the Name is built from what generate() returned
Assemble ==
    /\ gen_out # <<>>
    /\ built = <<>>
    /\ built' = <<assemble(gen_out[1])>>
    /\ UNCHANGED gen_out
    /\ UNCHANGED <<statVars, needVars, nameVars>>

\* Name(parts): a Name built without a sort_order
ConstructDefault ==
    /\ gen_out = <<>>
    /\ built = <<>>
    /\ \E parts \in TuplesUpTo(PartStrings, MaxParts) :
           built' = <<[outcome |-> "Name", name |-> <<NameInit(parts, <<>>)>>]>>
    /\ UNCHANGED gen_out
    /\ UNCHANGED <<statVars, needVars, nameVars>>

\* the loop goes on to its next iteration; an IndexError has ended the program
NextIteration ==
    /\ built # <<>>
    /\ built[1].outcome = "Name"
    /\ gen_out' = <<>>
    /\ built' = <<>>
    /\ UNCHANGED <<statVars, needVars, nameVars>>

Init ==
    /\ pc = "idle"
    /\ ret = EmptyDict
    /\ raw = {}
    /\ roll = {}
    /\ compressed = FALSE
    /\ outliers = 0
    /\ alignment_arg = <<"", "">>
    /\ person = <<>>
    /\ registered_needs = EmptyDict
    /\ last_registered = EmptyDict
    /\ need_result = <<>>
    /\ case_sensitive = FALSE
    /\ cmp = <<>>
    /\ gen_out = <<>>
    /\ built = <<>>

NextStats ==
    PersonBegin \/ GenSample \/ GenGate \/ PersonFinish \/ PersonWithStats

SpecStats == Init /\ [][NextStats]_vars

NextNeeds == register_need \/ create_need

SpecNeeds == Init /\ [][NextNeeds]_vars

NextNames == SetCaseSensitive \/ Compare \/ Forget

SpecNames == Init /\ [][NextNames]_vars

NextAssembly == Generate \/ Assemble \/ ConstructDefault \/ NextIteration

SpecAssembly == Init /\ [][NextAssembly]_vars

(***************************************************************************)
(* Claims about stat generation and alignment, checked under SpecStats.    *)
(***************************************************************************)
\* the stat the last iteration of __gen_stat_dict handled
LastStat == STAT_TYPES[Cardinality(DOMAIN ret)]

\* an iteration of the loop has run to its end in the generation under way
Sampled == raw # {} /\ pc # "gate"

\* C1: for every stat type, the raw sample is replaced by compress_range(raw)
\* if and only if the roll made for that stat is zero, and a stat whose roll
\* is not zero keeps its raw value.
C1_CompressionGatedOnlyByRoll ==
    Sampled =>
        /\ compressed <=> roll = {0}
        /\ roll # {0} => \A v \in raw : ret[LastStat] = v

\* what the code does instead: every stat but PREDICTABILITY is compressed
\* without a roll being made, and PREDICTABILITY is compressed iff its roll is 0
C1_Observed ==
    Sampled =>
        /\ LastStat # "PREDICTABILITY" => roll = {} /\ compressed
        /\ LastStat = "PREDICTABILITY" => roll # {} /\ (compressed <=> roll = {0})
        /\ \A v \in raw :
               ret[LastStat] = IF compressed THEN compress_range(v) ELSE v

C1_Witness ==
    /\ Sampled
    /\ LastStat = "STRENGTH"
    /\ raw = {3}
    /\ roll = {}
    /\ ret["STRENGTH"] = 6

\* the claim's law-chaos and good-evil labels
LawChaos(p) == IF p >= 13 THEN "NEUTRAL" ELSE IF p \in 8..12 THEN "LAWFUL" ELSE "CHAOTIC"
GoodEvil(l) == IF l >= 13 THEN "GOOD" ELSE IF l \in 8..12 THEN "NEUTRAL" ELSE "EVIL"

\* C2: after construction a Person's alignment is the pair (law_chaos,
\* good_evil) of its PREDICTABILITY and LAWFULLNESS stats, whatever alignment
\* argument was passed, for all stat values in 3..18.
C2_AlignmentDerivedFromStats ==
    \A i \in DOMAIN person :
        LET p == person[i] IN
        (\A s \in StatSet : p.stats[s] \in 3..18) =>
            p.alignment = <<LawChaos(p.stats["PREDICTABILITY"]),
                            GoodEvil(p.stats["LAWFULLNESS"])>>

C2_Witness ==
    /\ person # <<>>
    /\ pc = "idle"
    /\ alignment_arg = <<"CHAOTIC", "EVIL">>
    /\ person[1].stats["PREDICTABILITY"] = 13
    /\ person[1].stats["LAWFULLNESS"] = 8
    /\ person[1].alignment = <<"NEUTRAL", "NEUTRAL">>

\* compress_range on 3..18: its two ends, and non-decreasing
CompressRangeShape ==
    /\ compress_range(3) = 6
    /\ compress_range(18) = 16
    /\ \A m \in 3..18, n \in 3..18 :
           m <= n => compress_range(m) <= compress_range(n)

\* C9: stat generation yields a mapping whose keys are exactly the 8 stat
\* types, each value an integer in 3..18; raw samples lie in 3..18;
\* compress_range(n) is floor(sqrt(15 n)), non-decreasing on 3..18, 6 at 3 and
\* 16 at 18, so every compressed value lies in 6..16.
C9_StatsCompleteAndInRange ==
    /\ DOMAIN ret \subseteq StatSet
    /\ \A s \in DOMAIN ret : ret[s] \in 3..18
    /\ raw \subseteq 3..18
    /\ Sampled /\ compressed =>
           /\ ret[LastStat] \in 6..16
           /\ \A v \in raw :
                  /\ ret[LastStat] * ret[LastStat] <= 15 * v
                  /\ (ret[LastStat] + 1) * (ret[LastStat] + 1) > 15 * v
    /\ \A i \in DOMAIN person :
           /\ DOMAIN person[i].stats = StatSet
           /\ Cardinality(DOMAIN person[i].stats) = 8
           /\ \A s \in StatSet : person[i].stats[s] \in 3..18
    /\ CompressRangeShape

C9_Witness ==
    /\ pc = "idle"
    /\ person # <<>>
    /\ person[1].stats["STRENGTH"] = 16
    /\ person[1].stats["PREDICTABILITY"] = 10
    /\ person[1].stats["LAWFULLNESS"] = 12

\* the values a roll is looked for among: 0..4 N + 1
RollCandidates == 0..(4 * Len(STAT_TYPES) + 1)

\* the outcomes the roll of the iteration under way can have
RollOutcomes == {r \in RollCandidates : ENABLED (roll' = {r} /\ GenGate)}

\* the outcomes after which the iteration under way compresses
TriggerOutcomes ==
    {r \in RollCandidates : ENABLED (roll' = {r} /\ GenGate /\ compressed')}

\* C10 as stated: the roll has exactly 4 N - 2 outcomes, exactly one of which,
\* zero, triggers compression (N the number of stat types): 30 for N = 8.
C10_RollHas4NMinus2Outcomes ==
    pc = "gate" =>
        LET outcomes == RollOutcomes IN
        outcomes # {} =>
            /\ Cardinality(outcomes) = 4 * Len(STAT_TYPES) - 2
            /\ Cardinality(outcomes) = 30
            /\ TriggerOutcomes = {0}

\* C10 as amended: a roll, when one is made, has exactly the 4 N - 1 outcomes
\* 0..4 N - 2, exactly one of which, zero, triggers compression: 31 for N = 8.
C10_RollHas4NMinus1Outcomes ==
    /\ pc = "gate" =>
           LET outcomes == RollOutcomes IN
           outcomes # {} =>
               /\ outcomes = 0..(4 * Len(STAT_TYPES) - 2)
               /\ Cardinality(outcomes) = 4 * Len(STAT_TYPES) - 1
               /\ Cardinality(outcomes) = 31
               /\ TriggerOutcomes = {0}
    /\ roll # {} =>
           /\ roll \subseteq 0..(4 * Len(STAT_TYPES) - 2)
           /\ compressed <=> roll = {0}

C10_Witness ==
    /\ Sampled
    /\ LastStat = "PREDICTABILITY"
    /\ roll = {30}
    /\ ~compressed

(***************************************************************************)
(* Claims about the need taxonomy, checked under SpecNeeds.                *)
(***************************************************************************)
\* the upper-cased subtypes of the most recent register_need call for category c
LatestSubtypes(c) ==
    IF c \in DOMAIN last_registered
    THEN {upper(last_registered[c][i]) : i \in 1..Len(last_registered[c])}
    ELSE {}

\* C3: after any sequence of register_need and create_need calls through any
\* factory instance, create_need(c, s, w) returns a Need with type c, subtype
\* upper(s) and weight w (DEFAULT when omitted) exactly when upper(s) is among
\* the upper-cased subtypes of the most recent register_need call for c.
C3_CreateNeedFollowsLatestRegistration ==
    \A i \in DOMAIN need_result :
        LET r == need_result[i]
            w == IF r.weight_arg = <<>> THEN "DEFAULT" ELSE r.weight_arg[1]
        IN  /\ r.result.outcome = "Need" <=> upper(r.subtype) \in LatestSubtypes(r.type)
            /\ r.result.outcome = "Need" =>
                   r.result.need =
                       <<[type |-> r.type, subtype |-> upper(r.subtype), weight |-> w]>>
            /\ r.result.outcome # "Need" => r.result.need = <<>>

\* a lower-case subtype is accepted through the second factory instance after
\* the category was registered twice and another category once
C3_Witness ==
    /\ need_result # <<>>
    /\ need_result[1].factory = "otherFactory"
    /\ need_result[1].type = "PHYSIOLOGICAL"
    /\ need_result[1].subtype = StrFoodLower
    /\ need_result[1].weight_arg = <<>>
    /\ need_result[1].result.outcome = "Need"
    /\ need_result[1].result.need[1].weight = "DEFAULT"
    /\ last_registered["PHYSIOLOGICAL"] = <<StrDrink, StrFood>>
    /\ "SAFETY" \in DOMAIN last_registered
    /\ last_registered["SAFETY"] = <<StrDrink>>

\* C4: create_need for a category never registered fails identically to
\* create_need with a subtype not registered for a registered category: the
\* same validation error, and the registry unchanged.
C4_UnregisteredFailsLikeInvalidSubtype ==
    \A i \in DOMAIN need_result :
        LET r == need_result[i] IN
        r.result.outcome # "Need" =>
            /\ r.result.outcome = "ValueError"
            /\ registered_needs = r.registry_before

\* what the code does: an unregistered category fails with KeyError, an
\* unregistered subtype of a registered category with ValueError
C4_Observed ==
    \A i \in DOMAIN need_result :
        LET r == need_result[i] IN
        /\ r.type \notin DOMAIN r.registry_before <=> r.result.outcome = "KeyError"
        /\ registered_needs = r.registry_before

C4_Witness ==
    /\ need_result # <<>>
    /\ need_result[1].type = "SAFETY"
    /\ need_result[1].registry_before = EmptyDict
    /\ need_result[1].result.outcome = "KeyError"

(***************************************************************************)
(* Claims about Name comparisons, checked under SpecNames.                 *)
(***************************************************************************)
\* the comparison key of the claims: the parts in sort_order sequence, each
\* lower-cased unless case sensitivity is set, concatenated
RECURSIVE KeyFrom(_, _)
KeyFrom(n, k) ==
    IF k > Len(n.sort_order) THEN <<>>
    ELSE LET part == n.parts[n.sort_order[k] + 1]
         IN  (IF case_sensitive THEN part ELSE lower(part)) \o KeyFrom(n, k + 1)

Key(n) == KeyFrom(n, 1)

\* the order of keys: first difference by code point, a proper prefix first
RECURSIVE KeyLess(_, _)
KeyLess(x, y) ==
    IF y = <<>> THEN FALSE
    ELSE IF x = <<>> THEN TRUE
    ELSE IF Head(x) # Head(y) THEN Ord[Head(x)] < Ord[Head(y)]
    ELSE KeyLess(Tail(x), Tail(y))

\* a comparison of a Name with an object that is not a Name, either way round
MixedComparison(c) == c.left.kind # c.right.kind

\* C5: comparing a Name with an object that is not a Name, with any of
\* ==, !=, <, <=, >, >=, signals a type mismatch and never yields a boolean.
C5_MixedComparisonNeverBoolean ==
    \A i \in DOMAIN cmp :
        MixedComparison(cmp[i]) => \A op \in Ops : cmp[i].out[op] = "TypeError"

\* C5 as amended: the ordering operators signal a type mismatch; == yields
\* False and != yields True.
C5_MixedOrderingRaisesEqualityIsFalse ==
    \A i \in DOMAIN cmp :
        MixedComparison(cmp[i]) =>
            /\ \A op \in {"<", "<=", ">", ">="} : cmp[i].out[op] = "TypeError"
            /\ cmp[i].out["=="] = "False"
            /\ cmp[i].out["!="] = "True"

C5_Witness ==
    /\ cmp # <<>>
    /\ cmp[1].left.kind = "Name"
    /\ cmp[1].left.parts = <<StrAn, StrA>>
    /\ cmp[1].right.kind = "int"
    /\ cmp[1].out["=="] = "False"
    /\ cmp[1].out["<"] = "TypeError"

\* the Names built with the default sort_order: every key a Name can have
\* is the key of one of them
DefaultOrderNames == {NameInit(parts, <<>>) : parts \in TuplesUpTo(PartStrings, MaxParts)}

\* the six operators between Names a and b, as the code decides them
Holds(op, a, b) == PyCompare(op, a, [b EXCEPT !.id = 2], case_sensitive) = "True"

\* C7: equality and ordering of Names are those of the comparison key:
\* a == b iff the keys are equal, a < b iff key(a) < key(b), exactly one of
\* a < b, a == b, a > b holds, <= and >= agree with < and ==, the order is
\* reflexive and transitive, and without case sensitivity Names whose parts
\* differ only in letter case are equal.
C7_OrderIsThatOfTheKey ==
    \A i \in DOMAIN cmp :
        LET a == cmp[i].left
            b == cmp[i].right
            out == cmp[i].out
            T(op) == out[op] = "True"
        IN  a.kind = "Name" /\ b.kind = "Name" =>
            /\ \A op \in Ops : out[op] \in {"True", "False"}
            /\ T("==") <=> Key(a) = Key(b)
            /\ T("!=") <=> Key(a) # Key(b)
            /\ T("<") <=> KeyLess(Key(a), Key(b))
            /\ T(">") <=> KeyLess(Key(b), Key(a))
            /\ T("<=") <=> (T("<") \/ T("=="))
            /\ T(">=") <=> (T(">") \/ T("=="))
            /\ Cardinality({op \in {"<", "==", ">"} : T(op)}) = 1
            /\ Holds("==", a, a) /\ Holds("<=", a, a) /\ Holds(">=", a, a)
            /\ \A c \in DefaultOrderNames :
                   /\ T("<=") /\ Holds("<=", b, c) => Holds("<=", a, c)
                   /\ T("<") /\ Holds("<", b, c) => Holds("<", a, c)
            /\ (~case_sensitive /\ Len(a.parts) = Len(b.parts)
                  /\ a.sort_order = b.sort_order
                  /\ \A k \in 1..Len(a.parts) : lower(a.parts[k]) = lower(b.parts[k]))
               => T("==")

\* Names with the parts in different orders, told apart only by sort_order,
\* and equal although their parts differ in case
C7_Witness ==
    /\ cmp # <<>>
    /\ ~case_sensitive
    /\ cmp[1].left.parts = <<StrAn, StrA>>
    /\ cmp[1].left.sort_order = <<1, 0>>
    /\ cmp[1].right.parts = <<StrA, StrAnLower>>
    /\ cmp[1].right.sort_order = <<0, 1>>
    /\ cmp[1].out["=="] = "True"
    /\ cmp[1].out["<"] = "False"
    /\ cmp[1].out[">="] = "True"

(***************************************************************************)
(* Claims about the assembly of Names, checked under SpecAssembly.         *)
(***************************************************************************)
\* the name parts the assembly chose from what generate() returned
Chosen(g) == IF g.romanised # <<>> THEN g.romanised ELSE g.name

\* C6: when the labels differ in number from the chosen name parts, longer
\* or shorter, assembly reports an error and builds no Name.
C6_LengthMismatchIsReported ==
    \A i \in DOMAIN gen_out, j \in DOMAIN built :
        Len(gen_out[i].parts) # Len(Chosen(gen_out[i])) =>
            built[j].outcome # "Name" /\ built[j].name = <<>>

\* what the code does: too few labels end in an IndexError, surplus labels are
\* ignored and the Name is built from the first ones
C6_Observed ==
    \A i \in DOMAIN gen_out, j \in DOMAIN built :
        built[j].outcome = "Name" <=> Len(gen_out[i].parts) >= Len(Chosen(gen_out[i]))

C6_Witness ==
    /\ gen_out # <<>>
    /\ built # <<>>
    /\ gen_out[1].name = <<StrAn>>
    /\ gen_out[1].romanised = <<>>
    /\ gen_out[1].parts = <<StrGiven, StrFamily>>
    /\ built[1].outcome = "Name"
    /\ built[1].name[1].sort_order = <<0>>

\* C8: every Name constructed has as many sort_order entries as parts, and a
\* sort_order that is a permutation of 0..len(parts)-1; the default is the
\* identity order; for n parts with n labels the assembler's sort_order lists
\* the indices in ascending label order, equal labels in their original
\* order, also when n >= 10.
C8_SortOrderIsStablePermutation ==
    \A j \in DOMAIN built : \A x \in DOMAIN built[j].name :
        LET nm == built[j].name[x]
            so == nm.sort_order
            n == Len(nm.parts)
        IN  /\ Len(so) = n
            /\ {so[p] : p \in 1..Len(so)} = 0..(n - 1)
            /\ gen_out = <<>> => \A p \in 1..n : so[p] = p - 1
            /\ \A i \in DOMAIN gen_out :
                   LET labels == gen_out[i].parts IN
                   Len(labels) = n =>
                       \A p, q \in 1..n :
                           p < q =>
                               /\ ~StrLt(labels[so[q] + 1], labels[so[p] + 1])
                               /\ labels[so[p] + 1] = labels[so[q] + 1] => so[p] < so[q]

\* eleven parts, the labels of the third and the last equal
C8_Witness ==
    /\ gen_out # <<>>
    /\ built # <<>>
    /\ Len(gen_out[1].name) = 11
    /\ Len(gen_out[1].parts) = 11
    /\ gen_out[1].parts[3] = StrFamily
    /\ gen_out[1].parts[11] = StrFamily
    /\ gen_out[1].parts[1] = StrGiven
    /\ built[1].outcome = "Name"
    /\ built[1].name[1].sort_order[1] = 2

====
